---------------------------- MODULE Spec2Model ----------------------------
(***************************************************************************)
(* Airspace geometry of gis_misc: the direct geodesic solver               *)
(* (geodesic_calc.py), the arc and circle samplers and the five shape      *)
(* builders (airspace_geometry.py).                                        *)
(*                                                                         *)
(* Numbers.  A DecimalDegrees value x is the integer x * Scale, so the     *)
(* model holds the multiples of 1/Scale degree.  Angles stay in degree     *)
(* measure inside the solver: radians() and degrees() are linear, pi is    *)
(* Deg(180).  Meters are whole metres.  The arithmetic is that of the      *)
(* reals: floating-point rounding is not modelled.                         *)
(*                                                                         *)
(* Points.  A coordinate is a tuple: <<v>> is the decimal-degree value v,  *)
(* a longer tuple is the coordinate the solver computes for a non-zero     *)
(* distance, which integer arithmetic cannot evaluate; it is kept as the   *)
(* arguments that determine it.  Equal tuples are equal coordinates; the   *)
(* model never concludes anything from two such tuples being different.    *)
(***************************************************************************)
EXTENDS Integers, Sequences, FiniteSets, TLC

VARIABLES call, result, passed, locals, failed

vars == <<call, result, passed, locals, failed>>

---------------------------------------------------------------------------
(* Bounds of the model *)

\* units per degree: the resolution of DecimalDegrees values
Scale == 2
\* the inputs have fractional parts 0/Scale .. MaxFrac/Scale
MaxFrac == 1
\* the radii are 0, 500, .., 500 * MaxRadiusSteps metres
MaxRadiusSteps == 2
\* the sigma loop's values are numbered 0 .. MaxSigma
MaxSigma == 1
\* the passes of the sigma loop are counted up to one above this
IterationCeiling == 200

---------------------------------------------------------------------------
(* Values *)

Deg(d) == d * Scale

Pi == Deg(180)

\* math.floor and math.ceil of a DecimalDegrees value: whole degrees
floor(x) == x \div Scale

ceil(x) == -((-x) \div Scale)

\* a decimal literal units.frac, frac its digits after the point
Decimal(units, frac) == [units |-> units, frac |-> frac]

Ellipsoid(a, b, f) == [a |-> a, b |-> b, f |-> f]

\* f is the quotient num / den of two decimals
WGS84 ==
    Ellipsoid(Decimal(6378137, <<>>), Decimal(6356752, <<3, 1, 4, 1>>),
              [num |-> Decimal(1, <<>>),
               den |-> Decimal(298, <<2, 5, 7, 2, 2, 2, 1, 0, 0, 8, 8>>)])

GeographicCoordinates(lon, lat) == [lon |-> lon, lat |-> lat]

\* shapely's Polygon, as the rings it is constructed from
Polygon(shell, holes) == [shell |-> shell, holes |-> holes]

\* the outcome of a call: a returned value or a raised exception
Return(v) == [exc |-> "", val |-> v]

Raise(e) == [exc |-> e, val |-> <<>>]

Min(S) == CHOOSE x \in S : \A y \in S : x <= y

Reverse(s) == [k \in 1..Len(s) |-> s[Len(s) + 1 - k]]


---------------------------------------------------------------------------
(* geodesic_calc.py *)

DigitAt(x, k) == IF k <= Len(x.frac) THEN x.frac[k] ELSE 0

\* x < y for two non-negative decimals
DecimalLess(x, y) ==
    \/ x.units < y.units
    \/ /\ x.units = y.units
       /\ \E k \in 1..(Len(x.frac) + Len(y.frac)) :
            /\ DigitAt(x, k) < DigitAt(y, k)
            /\ \A j \in 1..(k - 1) : DigitAt(x, j) = DigitAt(y, j)

\* distance = b, for a distance in whole metres
EqualsMeters(b, distance) == b.frac = <<>> /\ b.units = distance

\* Line 87, (lon1 + L + 3 * pi) % (2 * pi) - pi, with Python's % (the
\* result has the sign of the divisor, as TLA+'s % has).
NormalizeLon(lon1, L) == ((lon1 + L + 3 * Pi) % (2 * Pi)) - Pi

(***************************************************************************)
(* vincenty_direct_solution, for an ellipsoid with 0 < f < 1 and           *)
(* a >= b > 0, a latitude in [-90, 90] and a distance in whole metres.     *)
(*                                                                         *)
(* alpha1: the azimuth enters only as sin(alpha1) and cos(alpha1), which   *)
(* have period 360 degrees, so it is kept reduced.                         *)
(* u_sq (line 57) is 0 iff a = b or cos_sq_alpha = 0, and cos_sq_alpha =   *)
(* 1 - (cos_u1 * sin_alpha1)^2 is 0 iff tan_u1 = 0 (latitude 0) and        *)
(* sin_alpha1 is 1 or -1.  Then A = 1 and B = 0 (lines 58-59) and sigma    *)
(* (line 61) is distance / b.                                              *)
(* The loop (line 65) is entered unless sigma is within 1e-12 of sigmap =  *)
(* 1.  For the inputs below that is when u_sq = 0 and distance = b: with   *)
(* u_sq # 0, A - 1 is above 1e-8 (the azimuths are multiples of 1/Scale    *)
(* degree) and below 0.13, so b * A lies between b + 0.002 and 1.13 * b,   *)
(* where no input distance lies.                                           *)
(* Not entered, the loop leaves sin_sigma = None and line 75 multiplies a  *)
(* float by None.                                                          *)
(* Distance 0: sigma = 0, one pass gives sin_sigma = 0, cos_sigma = 1 and  *)
(* d_sigma = 0, so sigma stays 0 and the loop ends; lat2 (line 78) is      *)
(* atan2(sin_u1, (1 - f) * cos_u1) = lat1, lamb (line 81) is               *)
(* atan2(0, cos_u1) = 0 and L (line 83) is 0.                              *)
(* Any other distance: lat2 and L are not evaluated; the coordinates are   *)
(* the tuples of the arguments they depend on.                             *)
(***************************************************************************)
\* mutant: L is the azimuth where it is 0 (distance 0)
vincenty_direct_solution_L_alpha1(initial_point, initial_azimuth, distance, ellipsoid) ==
    LET lon1 == initial_point.lon[1]
        lat1 == initial_point.lat[1]
        alpha1 == initial_azimuth % Deg(360)
    IN  IF distance = 0
        THEN Return(GeographicCoordinates(<<NormalizeLon(lon1, alpha1)>>,
                                          <<lat1>>))
        ELSE Return(GeographicCoordinates(
                        <<lon1, lat1, alpha1, distance, ellipsoid>>,
                        <<lat1, alpha1, distance, ellipsoid>>))

\* the solver as the code has it
vincenty_direct_solution(initial_point, initial_azimuth, distance, ellipsoid) ==
    LET lon1 == initial_point.lon[1]
        lat1 == initial_point.lat[1]
        alpha1 == initial_azimuth % Deg(360)
        u_sq_is_0 ==
            \/ ellipsoid.a = ellipsoid.b
            \/ lat1 = 0 /\ alpha1 \in {Deg(90), Deg(270)}
        sigma_is_sigmap == u_sq_is_0 /\ EqualsMeters(ellipsoid.b, distance)
    IN  IF sigma_is_sigmap
        THEN Raise("TypeError")
        ELSE IF distance = 0
        THEN Return(GeographicCoordinates(<<NormalizeLon(lon1, 0)>>, <<lat1>>))
        ELSE Return(GeographicCoordinates(
                        <<lon1, lat1, alpha1, distance, ellipsoid>>,
                        <<lat1, alpha1, distance, ellipsoid>>))

---------------------------------------------------------------------------
(* airspace_geometry.py *)

\* What a sequence of solver calls made in order yields: the list of their
\* values, or the exception of the first call that raises. log is the list
\* of azimuths passed to the solver up to that point.
Calls(center, radius, azimuths) ==
    LET r == [k \in 1..Len(azimuths) |->
                 vincenty_direct_solution(center, azimuths[k], radius, WGS84)]
        raising == {k \in 1..Len(azimuths) : r[k].exc # ""}
    IN  IF raising = {}
        THEN [exc |-> "", val |-> [k \in 1..Len(azimuths) |-> r[k].val],
              log |-> azimuths]
        ELSE [exc |-> r[Min(raising)].exc, val |-> <<>>,
              log |-> SubSeq(azimuths, 1, Min(raising))]

\* mutant: floor for ceil, the upper azimuth is rounded down too
_central_int_angle_floor_both(azimuth_from, azimuth_to) ==
    LET a == floor(azimuth_to) - floor(azimuth_from)
    IN  a % 360

\* mutant: the difference is not reduced modulo 360
_central_int_angle_unreduced(azimuth_from, azimuth_to) ==
    ceil(azimuth_to) - floor(azimuth_from)

_central_int_angle(azimuth_from, azimuth_to) ==
    LET a == ceil(azimuth_to) - floor(azimuth_from)
    IN  a % 360

\* mutant: range(361), azimuth 360 is sampled too
_circle_coords_361(center, radius) ==
    Calls(center, radius, [i \in 1..361 |-> Deg(i - 1)])

\* range(360)
_circle_coords(center, radius) ==
    Calls(center, radius, [i \in 1..360 |-> Deg(i - 1)])

\* lines 57-59: the azimuth of the loop's pass i, in whole degrees
_arc_azm(azm_, i) ==
    LET azm == azm_ + i
    IN  IF azm > 360 THEN azm - 360 ELSE azm

\* mutant: range(1, angle + 1), one pass more
_arc_coords_one_more(center, radius, azimuth_from, azimuth_to) ==
    LET angle == (ceil(azimuth_to) - floor(azimuth_from)) % 360
        azm_ == floor(azimuth_from)
        loop == [i \in 1..angle |-> Deg(_arc_azm(azm_, i))]
        c == Calls(center, radius, <<azimuth_from, azimuth_to>> \o loop)
    IN  IF c.exc # ""
        THEN c
        ELSE [c EXCEPT !.val = <<c.val[1]>> \o SubSeq(c.val, 3, Len(c.val))
                                 \o <<c.val[2]>>]

\* arc_begin and arc_end are computed first (lines 50-51), then the points
\* of range(1, angle); coords is arc_begin, those points, arc_end.
_arc_coords(center, radius, azimuth_from, azimuth_to) ==
    LET angle == _central_int_angle(azimuth_from, azimuth_to)
        azm_ == floor(azimuth_from)
        loop == [i \in 1..(angle - 1) |-> Deg(_arc_azm(azm_, i))]
        c == Calls(center, radius, <<azimuth_from, azimuth_to>> \o loop)
    IN  IF c.exc # ""
        THEN c
        ELSE [c EXCEPT !.val = <<c.val[1]>> \o SubSeq(c.val, 3, Len(c.val))
                                 \o <<c.val[2]>>]

circle(center, radius) ==
    LET coords == _circle_coords(center, radius)
    IN  IF coords.exc # ""
        THEN coords
        ELSE [coords EXCEPT !.val = Polygon(coords.val, <<>>)]

\* mutant: the center is appended to the arc, not put before it
circular_sector_center_last(center, radius, azimuth_from, azimuth_to) ==
    LET arc == _arc_coords(center, radius, azimuth_from, azimuth_to)
    IN  IF arc.exc # ""
        THEN arc
        ELSE [arc EXCEPT !.val = Polygon(arc.val \o <<center>>, <<>>)]

circular_sector(center, radius, azimuth_from, azimuth_to) ==
    LET arc == _arc_coords(center, radius, azimuth_from, azimuth_to)
    IN  IF arc.exc # ""
        THEN arc
        ELSE [arc EXCEPT !.val = Polygon(<<center>> \o arc.val, <<>>)]

\* mutant: the center is put in front of the arc, as the sector does
circular_segment_center_first(center, radius, azimuth_from, azimuth_to) ==
    LET arc == _arc_coords(center, radius, azimuth_from, azimuth_to)
    IN  IF arc.exc # ""
        THEN arc
        ELSE [arc EXCEPT !.val = Polygon(<<center>> \o arc.val, <<>>)]

circular_segment(center, radius, azimuth_from, azimuth_to) ==
    LET arc == _arc_coords(center, radius, azimuth_from, azimuth_to)
    IN  IF arc.exc # ""
        THEN arc
        ELSE [arc EXCEPT !.val = Polygon(arc.val, <<>>)]

\* mutant: equal radii are let through (> for >=)
ring_equal_radii(center, inner_radius, outer_radius) ==
    LET inner_circle == _circle_coords(center, inner_radius)
        outer_circle == _circle_coords(center, outer_radius)
    IN  IF inner_radius > outer_radius
        THEN [exc |-> "ValueError", val |-> <<>>, log |-> <<>>]
        ELSE [exc |-> "",
              val |-> Polygon(outer_circle.val, <<inner_circle.val>>),
              log |-> inner_circle.log \o outer_circle.log]

ring(center, inner_radius, outer_radius) ==
    LET inner_circle == _circle_coords(center, inner_radius)
        outer_circle == _circle_coords(center, outer_radius)
    IN  IF inner_radius >= outer_radius
        THEN [exc |-> "ValueError", val |-> <<>>, log |-> <<>>]
        ELSE IF inner_circle.exc # ""
        THEN inner_circle
        ELSE IF outer_circle.exc # ""
        THEN [outer_circle EXCEPT !.log = inner_circle.log \o @]
        ELSE [exc |-> "",
              val |-> Polygon(outer_circle.val, <<inner_circle.val>>),
              log |-> inner_circle.log \o outer_circle.log]

\* mutant: the inner arc is not reversed
ring_sector_unreversed(center, inner_radius, outer_radius, azimuth_from, azimuth_to) ==
    LET outer_arc == _arc_coords(center, outer_radius, azimuth_from, azimuth_to)
        inner == _arc_coords(center, inner_radius, azimuth_from, azimuth_to)
    IN  IF inner_radius >= outer_radius
        THEN [exc |-> "RadiiError", val |-> <<>>, log |-> <<>>]
        ELSE [exc |-> "",
              val |-> Polygon(outer_arc.val \o inner.val, <<>>),
              log |-> outer_arc.log \o inner.log]

ring_sector(center, inner_radius, outer_radius, azimuth_from, azimuth_to) ==
    LET outer_arc == _arc_coords(center, outer_radius, azimuth_from, azimuth_to)
        inner == _arc_coords(center, inner_radius, azimuth_from, azimuth_to)
    IN  IF inner_radius >= outer_radius
        THEN [exc |-> "RadiiError", val |-> <<>>, log |-> <<>>]
        ELSE IF outer_arc.exc # ""
        THEN outer_arc
        ELSE IF inner.exc # ""
        THEN [inner EXCEPT !.log = outer_arc.log \o @]
        ELSE [exc |-> "",
              val |-> Polygon(outer_arc.val \o Reverse(inner.val), <<>>),
              log |-> outer_arc.log \o inner.log]

---------------------------------------------------------------------------
(* The callers' inputs *)

\* a caller-supplied ellipsoid with a whole number of metres as its axes
Ellipsoid1000 ==
    Ellipsoid(Decimal(1250, <<>>), Decimal(1000, <<>>),
              [num |-> Decimal(1, <<>>), den |-> Decimal(5, <<>>)])

ValidEllipsoid(e) ==
    /\ ~DecimalLess(e.a, e.b)
    /\ DecimalLess(Decimal(0, <<>>), e.b)
    /\ DecimalLess(Decimal(0, <<>>), e.f.num)
    /\ DecimalLess(e.f.num, e.f.den)

Ellipsoids == {e \in {WGS84, Ellipsoid1000} : ValidEllipsoid(e)}

Point(lon, lat) == GeographicCoordinates(<<lon>>, <<lat>>)

\* longitude in (-180, 180], latitude in [-90, 90]
Centers == {Point(Deg(0), Deg(0)), Point(Deg(180), Deg(52)),
            Point(Deg(-75) + MaxFrac, Deg(-30))}

Radii == {500 * k : k \in 0..MaxRadiusSteps}

AzimuthDegrees == {-10, 0, 10, 50, 90, 350, 370}

Azimuths == {Deg(w) + k : w \in AzimuthDegrees, k \in 0..MaxFrac}

---------------------------------------------------------------------------
(* The program: a module of functions and no state of its own.  A step is  *)
(* one call by the caller, made when no call is in progress; call holds    *)
(* the call and its arguments, result what it returned or raised, passed   *)
(* the azimuths it handed to the solver, in order.  Nothing of a call      *)
(* outlives it: once the caller has taken the outcome, the program is as   *)
(* it was after import.                                                    *)
(* locals holds the local variables of a solver call that is followed      *)
(* statement by statement (SolverSpec below); failed records that some     *)
(* earlier call ended in a radius-ordering error.                          *)

Idle == call.op = "import"

\* no solver call is being followed
NoLocals == [pc |-> "none"]

Init ==
    /\ call = [op |-> "import"]
    /\ result = Return(<<>>)
    /\ passed = <<>>
    /\ locals = NoLocals
    /\ failed = FALSE

\* mutant: once a call has failed on its radii, every later call fails so
Outcome_of_earlier_failure(r) ==
    /\ result' = IF failed THEN [exc |-> "RadiiError", val |-> <<>>]
                  ELSE [exc |-> r.exc, val |-> r.val]
    /\ passed' = r.log
    /\ UNCHANGED <<locals, failed>>

\* a call returns or raises: the outcome is that of its arguments
Outcome(r) ==
    /\ result' = [exc |-> r.exc, val |-> r.val]
    /\ passed' = r.log
    /\ UNCHANGED <<locals, failed>>

Solve ==
    /\ Idle
    /\ \E p \in Centers, az \in Azimuths, d \in Radii, e \in Ellipsoids :
        /\ call' = [op |-> "vincenty_direct_solution", initial_point |-> p,
                    initial_azimuth |-> az, distance |-> d, ellipsoid |-> e]
        /\ result' = vincenty_direct_solution(p, az, d, e)
        /\ passed' = <<az>>
        /\ UNCHANGED <<locals, failed>>

SampleCircle ==
    /\ Idle
    /\ \E c \in Centers, r \in Radii :
        /\ call' = [op |-> "_circle_coords", center |-> c, radius |-> r]
        /\ Outcome(_circle_coords(c, r))

SampleArc ==
    /\ Idle
    /\ \E c \in Centers, r \in Radii, from \in Azimuths, to \in Azimuths :
        /\ call' = [op |-> "_arc_coords", center |-> c, radius |-> r,
                    azimuth_from |-> from, azimuth_to |-> to]
        /\ Outcome(_arc_coords(c, r, from, to))

Circle ==
    /\ Idle
    /\ \E c \in Centers, r \in Radii :
        /\ call' = [op |-> "circle", center |-> c, radius |-> r]
        /\ Outcome(circle(c, r))

CircularSector ==
    /\ Idle
    /\ \E c \in Centers, r \in Radii, from \in Azimuths, to \in Azimuths :
        /\ call' = [op |-> "circular_sector", center |-> c, radius |-> r,
                    azimuth_from |-> from, azimuth_to |-> to]
        /\ Outcome(circular_sector(c, r, from, to))

CircularSegment ==
    /\ Idle
    /\ \E c \in Centers, r \in Radii, from \in Azimuths, to \in Azimuths :
        /\ call' = [op |-> "circular_segment", center |-> c, radius |-> r,
                    azimuth_from |-> from, azimuth_to |-> to]
        /\ Outcome(circular_segment(c, r, from, to))

Ring ==
    /\ Idle
    /\ \E c \in Centers, inner \in Radii, outer \in Radii :
        /\ call' = [op |-> "ring", center |-> c, inner_radius |-> inner,
                    outer_radius |-> outer]
        /\ Outcome(ring(c, inner, outer))

RingSector ==
    /\ Idle
    /\ \E c \in Centers, inner \in Radii, outer \in Radii,
       from \in Azimuths, to \in Azimuths :
        /\ call' = [op |-> "ring_sector", center |-> c,
                    inner_radius |-> inner, outer_radius |-> outer,
                    azimuth_from |-> from, azimuth_to |-> to]
        /\ Outcome(ring_sector(c, inner, outer, from, to))

\* the caller takes the outcome
Taken ==
    /\ ~Idle
    /\ locals.pc \in {"none", "done"}
    /\ call' = [op |-> "import"]
    /\ result' = Return(<<>>)
    /\ passed' = <<>>
    /\ locals' = NoLocals
    /\ failed' = (failed \/ result.exc \in {"ValueError", "RadiiError"})

Next ==
    \/ Solve
    \/ SampleCircle
    \/ SampleArc
    \/ Circle
    \/ CircularSector
    \/ CircularSegment
    \/ Ring
    \/ RingSector
    \/ Taken

Spec == Init /\ [][Next]_vars

---------------------------------------------------------------------------
(* geodesic_calc.py statement by statement: one solver call, its locals    *)
(* in the variable locals.                                                 *)
(*                                                                         *)
(* The values sigma takes in the loop are numbered: 0 is distance /        *)
(* (b * A) of line 61, and two values have the same number iff they are    *)
(* within the loop's 1e-12 of each other.  The sentinel sigmap = 1 of      *)
(* line 62 is value 0 when distance / (b * A) is within 1e-12 of 1, and    *)
(* -1, a value that is no sigma, otherwise.                                *)
(*                                                                         *)
(* d_sigma (lines 69-71) is a function of sigma alone: everything else it  *)
(* reads is fixed before the loop.  Its values are not computed here.  A   *)
(* call is followed for every function it can be:                          *)
(*   - u_sq = 0 gives B = 0 (line 58) and d_sigma = 0 for every sigma;     *)
(*   - distance 0 gives sigma = 0, sin_sigma = 0 and d_sigma = 0;          *)
(*   - a <= 5b/4 gives u_sq <= 9/16, |B| < 0.11 and a d_sigma that         *)
(*     changes by less than 0.12 times the change of sigma, so successive  *)
(*     sigma approach each other and the sequence settles;                 *)
(*   - for any other ellipsoid nothing bounds the change of d_sigma (with  *)
(*     a = 2b it reaches 4.5 times the change of sigma).                   *)
(* L (line 83) is not computed either: a call with a non-zero distance is  *)
(* followed for every L of LonDifferences.                                 *)
(***************************************************************************)

\* a caller-supplied ellipsoid twice as wide as it is high
Ellipsoid2000 ==
    Ellipsoid(Decimal(2000, <<>>), Decimal(1000, <<>>),
              [num |-> Decimal(1, <<>>), den |-> Decimal(2, <<>>)])

SolverEllipsoids ==
    {e \in {WGS84, Ellipsoid1000, Ellipsoid2000} : ValidEllipsoid(e)}

LonDifferences ==
    {Deg(w) + k : w \in {-180, -105, -1, 1, 90, 179}, k \in 0..MaxFrac}

SigmaValues == 0..MaxSigma

\* lines 45-56: 1 - (cos_u1 * sin_alpha1)^2 is 0, or a = b
u_sq_is_0(initial_point, initial_azimuth, ellipsoid) ==
    \/ ellipsoid.a = ellipsoid.b
    \/ /\ initial_point.lat[1] = 0
       /\ initial_azimuth % Deg(360) \in {Deg(90), Deg(270)}

\* line 61 against line 62: distance / (b * A) is within 1e-12 of 1
sigma_is_sigmap(initial_point, initial_azimuth, distance, ellipsoid) ==
    /\ u_sq_is_0(initial_point, initial_azimuth, ellipsoid)
    /\ EqualsMeters(ellipsoid.b, distance)

\* a <= 5b/4
Contracts(ellipsoid) ==
    \/ 4 * ellipsoid.a.units < 5 * ellipsoid.b.units
    \/ /\ 4 * ellipsoid.a.units = 5 * ellipsoid.b.units
       /\ ellipsoid.a.frac = <<>>

RECURSIVE Iterate(_, _, _)
\* sigma after n passes from sigma = s, d_sigma being f
Iterate(f, s, n) == IF n = 0 THEN s ELSE Iterate(f, f[s], n - 1)

\* from every value the passes reach a value that the next pass repeats
Settles(f) ==
    \A s \in SigmaValues :
        LET t == Iterate(f, s, MaxSigma + 1) IN f[t] = t

\* lines 69-72: the functions sigma |-> distance / (b * A) + d_sigma that
\* the call can have, on the numbers of the values
d_sigma(initial_point, initial_azimuth, distance, ellipsoid) ==
    IF distance = 0 \/ u_sq_is_0(initial_point, initial_azimuth, ellipsoid)
    THEN {[s \in SigmaValues |-> 0]}
    ELSE IF Contracts(ellipsoid)
    THEN {f \in [SigmaValues -> SigmaValues] : Settles(f)}
    ELSE [SigmaValues -> SigmaValues]

None == <<>>

\* lines 23-63: the call, up to the loop
SolveStart ==
    /\ Idle
    /\ \E p \in Centers, az \in Azimuths, d \in Radii, e \in SolverEllipsoids :
        \E f \in d_sigma(p, az, d, e) :
            /\ call' = [op |-> "vincenty_direct_solution",
                        initial_point |-> p, initial_azimuth |-> az,
                        distance |-> d, ellipsoid |-> e]
            /\ locals' = [pc |-> "while", d_sigma |-> f, passes |-> 0,
                          sigma |-> 0,
                          sigmap |-> IF sigma_is_sigmap(p, az, d, e)
                                     THEN 0 ELSE -1,
                          sin_sigma |-> None, cos_sigma |-> None,
                          cos2sigma_m |-> None]
            /\ passed' = <<az>>
            /\ UNCHANGED <<result, failed>>

\* lines 65-73: one pass of the loop; the three values of lines 66-68 are
\* kept as the sigma they are computed from
SigmaPass ==
    /\ locals.pc = "while"
    /\ locals.sigma # locals.sigmap
    /\ locals' = [locals EXCEPT
                    !.cos2sigma_m = <<locals.sigma>>,
                    !.sin_sigma = <<locals.sigma>>,
                    !.cos_sigma = <<locals.sigma>>,
                    !.sigmap = locals.sigma,
                    !.sigma = locals.d_sigma[locals.sigma],
                    !.passes = IF locals.passes > IterationCeiling
                               THEN locals.passes ELSE locals.passes + 1]
    /\ UNCHANGED <<call, result, passed, failed>>

\* lines 75-92: the destination, once the loop has ended
SolveEnd ==
    /\ locals.pc = "while"
    /\ locals.sigma = locals.sigmap
    /\ locals' = [locals EXCEPT !.pc = "done"]
    /\ LET lon1 == call.initial_point.lon[1]
           lat1 == call.initial_point.lat[1]
           alpha1 == call.initial_azimuth % Deg(360)
       IN  IF locals.sin_sigma = None
           THEN result' = Raise("TypeError")
           ELSE IF call.distance = 0
           THEN result' = Return(GeographicCoordinates(
                                     <<NormalizeLon(lon1, 0)>>, <<lat1>>))
           ELSE \E L \in LonDifferences :
                   result' = Return(GeographicCoordinates(
                                 <<NormalizeLon(lon1, L)>>,
                                 <<lat1, alpha1, call.distance,
                                   call.ellipsoid>>))
    /\ UNCHANGED <<call, passed, failed>>

SolverNext ==
    \/ SolveStart
    \/ SigmaPass
    \/ SolveEnd
    \/ Taken

SolverSpec == Init /\ [][SolverNext]_vars

---------------------------------------------------------------------------
(* What the claims speak of *)

Returned == result.exc = ""

\* the solver's point for an azimuth, as the caller of the sampler sees it
solveDirect(center, azimuth, radius) ==
    vincenty_direct_solution(center, azimuth, radius, WGS84).val

\* (ceil(azimuthTo) - floor(azimuthFrom)) mod 360, in the claims' words
centralAngle(azimuthFrom, azimuthTo) ==
    (ceil(azimuthTo) - floor(azimuthFrom)) % 360

Max(a, b) == IF a >= b THEN a ELSE b

\* The whole-degree azimuths strictly between azimuthFrom and azimuthTo
\* along the sweep of increasing azimuth, in sweep order, reduced to
\* [0, 360).
SweepInterior(azimuthFrom, azimuthTo) ==
    LET from == azimuthFrom % Deg(360)
        sweep == (azimuthTo - azimuthFrom) % Deg(360)
        first == floor(from) + 1
        n == Cardinality({d \in first..(first + 360) : Deg(d) < from + sweep})
    IN  [i \in 1..n |-> Deg((first + i - 1) % 360)]

---------------------------------------------------------------------------
(* C1 *)

\* C1: sampleArc returns the point at azimuthFrom, then one point for each
\* whole-degree azimuth strictly between azimuthFrom and azimuthTo along
\* the sweep of increasing azimuth, in sweep order, then the point at
\* azimuthTo, for every pair of azimuths.
C1_ArcSamplesTheSweep ==
    call.op = "_arc_coords" =>
        LET azimuths == <<call.azimuth_from>>
                            \o SweepInterior(call.azimuth_from, call.azimuth_to)
                            \o <<call.azimuth_to>>
        IN  /\ Returned
            /\ result.val = [k \in 1..Len(azimuths) |->
                                solveDirect(call.center, azimuths[k], call.radius)]

---------------------------------------------------------------------------
(* C2 *)

\* C2, as stated: the number of interior points sampleArc places between
\* its two endpoints equals centralAngle.
C2_InteriorCountIsCentralAngle ==
    (call.op = "_arc_coords" /\ Returned) =>
        Len(result.val) - 2 = centralAngle(call.azimuth_from, call.azimuth_to)

\* C2, amended: the number of interior points sampleArc places between its
\* two endpoints is centralAngle - 1, and 0 when centralAngle is 0.
C2_InteriorCountIsCentralAngleLessOne ==
    (call.op = "_arc_coords" /\ Returned) =>
        Len(result.val) - 2 =
            Max(centralAngle(call.azimuth_from, call.azimuth_to) - 1, 0)

\* sampleArc(center, 500, 10, 50) has returned its 41 points
C2_Witness ==
    /\ call.op = "_arc_coords"
    /\ call.radius = 500
    /\ call.azimuth_from = Deg(10)
    /\ call.azimuth_to = Deg(50)
    /\ Returned
    /\ Len(result.val) = 41

---------------------------------------------------------------------------
(* C3 *)

\* C3: every interior azimuth sampleArc passes to the solver lies in
\* [0, 360): pass k hands over floor(azimuthFrom) + k wrapped into [0, 360).
\* (The solver is called for the two endpoints first, then for the
\* interior.)
C3_InteriorAzimuthsInRange ==
    call.op = "_arc_coords" =>
        \A k \in 1..(Len(passed) - 2) :
            /\ passed[k + 2] >= 0
            /\ passed[k + 2] < Deg(360)
            /\ passed[k + 2] = Deg((floor(call.azimuth_from) + k) % 360)

---------------------------------------------------------------------------
(* C4 *)

\* C4: sampleCircle returns exactly 360 points, the i-th (i = 0..359) being
\* solveDirect(center, i, radius); the solver is asked for the azimuths
\* 0, 1, .., 359 in this order and never for azimuth 360.
C4_CircleIs360Points ==
    call.op = "_circle_coords" =>
        /\ Returned
        /\ Len(result.val) = 360
        /\ \A i \in 0..359 :
              result.val[i + 1] = solveDirect(call.center, Deg(i), call.radius)
        /\ Len(passed) = 360
        /\ \A i \in 0..359 : passed[i + 1] = Deg(i)

\* sampleCircle(center, 500) has returned, its last point that of azimuth 359
C4_Witness ==
    /\ call.op = "_circle_coords"
    /\ call.radius = 500
    /\ Returned
    /\ result.val[Len(result.val)] = solveDirect(call.center, Deg(359), 500)
    /\ passed[Len(passed)] = Deg(359)

---------------------------------------------------------------------------
(* C5 *)

\* C5: ring fails exactly when innerRadius >= outerRadius, producing no
\* polygon and sampling nothing; otherwise it returns the polygon whose outer ring is
\* sampleCircle(center, outerRadius) and whose single hole is
\* sampleCircle(center, innerRadius).
C5_RingFailsIffRadiiUnordered ==
    call.op = "ring" =>
        /\ ~Returned <=> call.inner_radius >= call.outer_radius
        /\ ~Returned => result.val = <<>> /\ passed = <<>>
        /\ Returned =>
            /\ Len(result.val.shell) = 360
            /\ \A i \in 0..359 :
                  result.val.shell[i + 1] =
                      solveDirect(call.center, Deg(i), call.outer_radius)
            /\ Len(result.val.holes) = 1
            /\ Len(result.val.holes[1]) = 360
            /\ \A i \in 0..359 :
                  result.val.holes[1][i + 1] =
                      solveDirect(call.center, Deg(i), call.inner_radius)

\* ring with equal radii has failed
C5_Witness ==
    /\ call.op = "ring"
    /\ call.inner_radius = 500
    /\ call.outer_radius = 500
    /\ ~Returned

---------------------------------------------------------------------------
(* C6 *)

\* C6: for innerRadius < outerRadius, ringSector returns a single ring: the
\* points of sampleArc(center, outerRadius, ..) in order, then those of
\* sampleArc(center, innerRadius, ..) in reverse; the outer point at
\* azimuthTo is followed by the inner point at azimuthTo and the last
\* vertex is the inner point at azimuthFrom.  For innerRadius >=
\* outerRadius it fails and returns no polygon.
C6_RingSectorOuterThenInnerReversed ==
    call.op = "ring_sector" =>
        IF call.inner_radius < call.outer_radius
        THEN LET outer == _arc_coords(call.center, call.outer_radius,
                                      call.azimuth_from, call.azimuth_to).val
                 inner == _arc_coords(call.center, call.inner_radius,
                                      call.azimuth_from, call.azimuth_to).val
                 shell == result.val.shell
                 n == Len(outer)
             IN  /\ Returned
                 /\ result.val.holes = <<>>
                 /\ Len(shell) = n + Len(inner)
                 /\ \A k \in 1..n : shell[k] = outer[k]
                 /\ \A k \in 1..Len(inner) :
                       shell[n + k] = inner[Len(inner) + 1 - k]
                 /\ shell[n] = solveDirect(call.center, call.azimuth_to,
                                           call.outer_radius)
                 /\ shell[n + 1] = solveDirect(call.center, call.azimuth_to,
                                               call.inner_radius)
                 /\ shell[Len(shell)] =
                       solveDirect(call.center, call.azimuth_from,
                                   call.inner_radius)
        ELSE ~Returned /\ result.val = <<>>

\* ringSector(center, 500, 1000, 0, 90) has returned its ring
C6_Witness ==
    /\ call.op = "ring_sector"
    /\ call.inner_radius = 500
    /\ call.outer_radius = 1000
    /\ call.azimuth_from = Deg(0)
    /\ call.azimuth_to = Deg(90)
    /\ Returned
    /\ result.val.shell[1] = solveDirect(call.center, Deg(0), 1000)
    /\ result.val.shell[Len(result.val.shell)] =
          solveDirect(call.center, Deg(0), 500)

---------------------------------------------------------------------------
(* C7 *)

\* C7: ring and ringSector signal an invalid radius ordering with one and
\* the same error kind: whenever one of them has failed on its radii, the
\* other fails on these radii with the same exception.
C7_OneErrorKind ==
    (call.op \in {"ring", "ring_sector"} /\ ~Returned
        /\ call.inner_radius >= call.outer_radius) =>
        /\ result.exc =
              ring(call.center, call.inner_radius, call.outer_radius).exc
        /\ \A from \in Azimuths, to \in Azimuths :
              result.exc =
                  ring_sector(call.center, call.inner_radius,
                              call.outer_radius, from, to).exc

---------------------------------------------------------------------------
(* C8 *)

\* the points of a ring sector's outer arc: the first half of its vertices
RingSectorHalf == Len(result.val.shell) \div 2

\* The solver was asked for the same azimuths for the outer arc as for the
\* inner arc, and every answer is a vertex.
SameCountOnBothArcs ==
    /\ Len(passed) = Len(result.val.shell)
    /\ Len(passed) = 2 * RingSectorHalf
    /\ \A k \in 1..RingSectorHalf : passed[k] = passed[RingSectorHalf + k]

\* C8, as stated: for ringSector with valid radii the outer arc has as many
\* points as the inner arc and the boundary has 2 * (centralAngle + 2)
\* points (the code removes no point, so nothing is subtracted).
C8_BoundaryCountAsStated ==
    (call.op = "ring_sector" /\ Returned) =>
        /\ SameCountOnBothArcs
        /\ Len(result.val.shell) =
              2 * (centralAngle(call.azimuth_from, call.azimuth_to) + 2)

\* C8, amended: for ringSector with valid radii the outer arc has as many
\* points as the inner arc and the boundary has
\* 2 * (max(centralAngle - 1, 0) + 2) points, none removed.
C8_BoundaryCount ==
    (call.op = "ring_sector" /\ Returned) =>
        /\ SameCountOnBothArcs
        /\ Len(result.val.shell) =
              2 * (Max(centralAngle(call.azimuth_from, call.azimuth_to) - 1, 0)
                   + 2)

\* ringSector(center, 500, 1000, 0, 90) has returned 182 vertices
C8_Witness ==
    /\ call.op = "ring_sector"
    /\ call.inner_radius = 500
    /\ call.outer_radius = 1000
    /\ call.azimuth_from = Deg(0)
    /\ call.azimuth_to = Deg(90)
    /\ Returned
    /\ Len(result.val.shell) = 182

---------------------------------------------------------------------------
(* C9 *)

Occurrences(p, s) == Cardinality({k \in 1..Len(s) : s[k] = p})

---------------------------------------------------------------------------
(* C10 *)

\* C10: solveDirect with distance 0 returns the start point unchanged, for
\* every ellipsoid, azimuth and valid start point, longitude 180 included.
C10_ZeroDistanceIdentity ==
    (call.op = "vincenty_direct_solution" /\ call.distance = 0) =>
        /\ Returned
        /\ result.val = call.initial_point

---------------------------------------------------------------------------
(* C11 *)

\* the followed solver call has ended and returned a point
SolverReturned ==
    /\ call.op = "vincenty_direct_solution"
    /\ locals.pc = "done"
    /\ Returned

\* C11: the longitude solveDirect returns lies in (-180, 180], open at -180
\* and closed at 180, for every start longitude and every longitude
\* difference L.
C11_LongitudeInHalfOpenInterval ==
    SolverReturned =>
        /\ result.val.lon[1] > -Deg(180)
        /\ result.val.lon[1] <= Deg(180)

---------------------------------------------------------------------------
(* C12 *)

\* C12: the sigma loop of solveDirect is bounded by an iteration ceiling:
\* no call makes more passes than the ceiling, and a call whose successive
\* sigma values have not come within 1e-12 of each other by then has
\* stopped and reported a ConvergenceFailure.
C12_LoopStopsAtTheCeiling ==
    (call.op = "vincenty_direct_solution" /\ locals.pc # "none") =>
        /\ locals.passes <= IterationCeiling
        /\ (locals.passes = IterationCeiling
                /\ locals.sigma # locals.sigmap) =>
              /\ locals.pc = "done"
              /\ result.exc = "ConvergenceFailure"

---------------------------------------------------------------------------
(* C13 *)

\* the sequence of points the arc sampler returns
sampleArc(center, radius, azimuthFrom, azimuthTo) ==
    _arc_coords(center, radius, azimuthFrom, azimuthTo).val

\* C13: the boundary circularSegment returns is exactly the sequence
\* sampleArc(center, radius, azimuthFrom, azimuthTo), the same points in the
\* same order and no center before or after them; the circularSector
\* boundary for the same arguments is that sequence with the center in
\* front.
C13_SegmentIsTheArcAlone ==
    call.op = "circular_segment" =>
        LET arc == sampleArc(call.center, call.radius,
                             call.azimuth_from, call.azimuth_to)
            sector == circular_sector(call.center, call.radius,
                                      call.azimuth_from, call.azimuth_to)
        IN  /\ Returned
            /\ Len(result.val.shell) = Len(arc)
            /\ \A k \in 1..Len(arc) : result.val.shell[k] = arc[k]
            /\ result.val.holes = <<>>
            /\ sector.exc = ""
            /\ sector.val.shell = <<call.center>> \o result.val.shell

\* circularSegment(center, 500, 10, 50) has returned the 41 points of the arc
C13_Witness ==
    /\ call.op = "circular_segment"
    /\ call.radius = 500
    /\ call.azimuth_from = Deg(10)
    /\ call.azimuth_to = Deg(50)
    /\ Returned
    /\ Len(result.val.shell) = 41

---------------------------------------------------------------------------
(* C14 *)

AllEqual(points) ==
    \A j \in 1..Len(points), k \in 1..Len(points) : points[j] = points[k]

---------------------------------------------------------------------------
(* C15 *)

\* what the call c returns or raises when it is the first call made after
\* import
AsFirstCall(c) ==
    LET r == CASE c.op = "vincenty_direct_solution" ->
                    vincenty_direct_solution(c.initial_point,
                        c.initial_azimuth, c.distance, c.ellipsoid)
               [] c.op = "_circle_coords" -> _circle_coords(c.center, c.radius)
               [] c.op = "_arc_coords" ->
                    _arc_coords(c.center, c.radius,
                                c.azimuth_from, c.azimuth_to)
               [] c.op = "circle" -> circle(c.center, c.radius)
               [] c.op = "circular_sector" ->
                    circular_sector(c.center, c.radius,
                                    c.azimuth_from, c.azimuth_to)
               [] c.op = "circular_segment" ->
                    circular_segment(c.center, c.radius,
                                     c.azimuth_from, c.azimuth_to)
               [] c.op = "ring" ->
                    ring(c.center, c.inner_radius, c.outer_radius)
               [] c.op = "ring_sector" ->
                    ring_sector(c.center, c.inner_radius, c.outer_radius,
                                c.azimuth_from, c.azimuth_to)
    IN  [exc |-> r.exc, val |-> r.val]

---------------------------------------------------------------------------
(* C16 *)

\* C16: for azimuthFrom = azimuthTo the central angle is 0 if the azimuth
\* is a whole number of degrees and 1 otherwise, and in both cases sampleArc
\* returns exactly two points, the endpoint at azimuthFrom and the endpoint
\* at azimuthTo, and samples no interior point.
C16_EqualAzimuthsGiveTwoPoints ==
    (call.op = "_arc_coords" /\ call.azimuth_from = call.azimuth_to) =>
        /\ _central_int_angle(call.azimuth_from, call.azimuth_to) =
              (IF call.azimuth_from % Scale = 0 THEN 0 ELSE 1)
        /\ Returned
        /\ Len(result.val) = 2
        /\ result.val[1] =
              solveDirect(call.center, call.azimuth_from, call.radius)
        /\ result.val[2] =
              solveDirect(call.center, call.azimuth_to, call.radius)
        /\ passed = <<call.azimuth_from, call.azimuth_to>>

\* sampleArc(center, 500, a, a), a a whole number of degrees and a fraction,
\* has returned two points and the central angle is 1
C16_Witness ==
    /\ call.op = "_arc_coords"
    /\ call.radius = 500
    /\ call.azimuth_from = Deg(10) + 1
    /\ call.azimuth_to = Deg(10) + 1
    /\ _central_int_angle(call.azimuth_from, call.azimuth_to) = 1
    /\ Returned
    /\ Len(result.val) = 2

---------------------------------------------------------------------------
(* C17 *)

\* C17: in solveDirect the body of the sigma loop runs at least once before
\* the destination is computed, for every distance and ellipsoid, also
\* when distance / (b * A) is within 1e-12 of the sentinel 1: where the
\* latitude and longitude formulas are reached, sin_sigma, cos_sigma and
\* cos2sigma_m are assigned, not None, and the solver raises no error of
\* its own.
C17_LoopBodyRunsBeforeDestination ==
    (call.op = "vincenty_direct_solution" /\ locals.pc = "done") =>
        /\ locals.passes >= 1
        /\ locals.sin_sigma # None
        /\ locals.cos_sigma # None
        /\ locals.cos2sigma_m # None
        /\ Returned

===========================================================================
